---------------------------- MODULE Spec2Model ----------------------------
(***************************************************************************)
(* A model of the data-flow search backend (jqttk-v/data-flow-d3):         *)
(*   - main.py            the service: the global data_store, the global   *)
(*                        enhanced_searcher, parse_xml_file, the query     *)
(*                        endpoint;                                        *)
(*   - enhanced_search.py the EnhancedSearch class: tokenizer, indices,    *)
(*                        variant tables, entity extraction, the four      *)
(*                        scoring passes, ranking, related flows and the   *)
(*                        natural-language response.                       *)
(*                                                                         *)
(* Text is kept as TLA+ strings and handled character by character, so     *)
(* that lower-casing, tokenizing, substring tests and the directional      *)
(* regular expressions are computed, not assumed.                          *)
(*                                                                         *)
(* Scores are Python floats in the code.  The model keeps them exact, as   *)
(* integers counting 1/ScoreUnit: every contribution the modelled inputs   *)
(* can produce is a whole number of such units (ScoreUnitsExact below),    *)
(* and floating-point rounding error is outside the model.                 *)
(***************************************************************************)
EXTENDS Integers, Sequences, FiniteSets, TLC

VARIABLES
    xml_file,           \* what datenfluesse.xml holds (the environment)
    data_store,         \* main.py: the global data_store dictionary
    enhanced_searcher,  \* main.py: the global EnhancedSearch instance, or None
    phase,              \* "boot" until the startup event has run, then "serving"
    request,            \* the text of the query a client sends
    response,           \* what the last search() call returned, or None
    frame,              \* the locals of the last search() call at its return
    held                \* a result a client still holds, or None

vars == <<xml_file, data_store, enhanced_searcher, phase, request, response, frame, held>>

\* Python's None, for a variable that otherwise holds an object (a record)
None == [kind |-> "None"]

\* an absent dict key or an Optional without a value is <<>>, a present one <<v>>
Absent == <<>>

\* a dict or a list built by a comprehension: the function f with its values
\* computed once, when it is built
Table(f) == f @@ <<>>

-----------------------------------------------------------------------------
(* Characters and strings (Python str).                                    *)

Char(s, i) == SubSeq(s, i, i)

UpperLetters == "ABCDEFGHIJKLMNOPQRSTUVWXYZ"
LowerLetters == "abcdefghijklmnopqrstuvwxyz"
Digits == "0123456789"

CharsOf(s) == {Char(s, i) : i \in 1..Len(s)}

UpperSet == CharsOf(UpperLetters)

LowerOf == [c \in UpperSet |->
              Char(LowerLetters, CHOOSE i \in 1..Len(UpperLetters) : Char(UpperLetters, i) = c)]

\* re's \w on str: letters, digits and the underscore
WordChars == UpperSet \cup CharsOf(LowerLetters) \cup CharsOf(Digits) \cup {"_"}

\* re's \s, str.split() and str.strip(): whitespace
SpaceChars == {" ", "\t", "\n"}

IsWord(c) == c \in WordChars

IsSpace(c) == c \in SpaceChars

LowerChar(c) == IF c \in UpperSet THEN LowerOf[c] ELSE c

RECURSIVE MapChars(_, _, _)
\* the string made of Op(c) for each character c of s, from position i on
MapChars(Op(_), s, i) ==
    IF i > Len(s) THEN "" ELSE Op(Char(s, i)) \o MapChars(Op, s, i + 1)

\* str.lower()
lower(s) == MapChars(LowerChar, s, 1)

\* Python's `a in b` on strings
StrIn(a, b) == \E i \in 0..(Len(b) - Len(a)) : SubSeq(b, i + 1, i + Len(a)) = a

RECURSIVE SplitFrom(_, _, _, _)
SplitFrom(s, i, cur, acc) ==
    IF i > Len(s)
    THEN IF cur = "" THEN acc ELSE Append(acc, cur)
    ELSE IF IsSpace(Char(s, i))
         THEN SplitFrom(s, i + 1, "", IF cur = "" THEN acc ELSE Append(acc, cur))
         ELSE SplitFrom(s, i + 1, cur \o Char(s, i), acc)

\* str.split(): the maximal runs of non-whitespace
split(s) == SplitFrom(s, 1, "", <<>>)

RECURSIVE SplitOnFrom(_, _, _, _, _)
SplitOnFrom(s, sep, i, cur, acc) ==
    IF i > Len(s)
    THEN Append(acc, cur)
    ELSE IF Char(s, i) = sep
         THEN SplitOnFrom(s, sep, i + 1, "", Append(acc, cur))
         ELSE SplitOnFrom(s, sep, i + 1, cur \o Char(s, i), acc)

\* str.split(sep) for a one-character separator: empty parts are kept
SplitOn(s, sep) == SplitOnFrom(s, sep, 1, "", <<>>)

RECURSIVE StripLeft(_)
StripLeft(s) == IF s # "" /\ IsSpace(Char(s, 1)) THEN StripLeft(SubSeq(s, 2, Len(s))) ELSE s

RECURSIVE StripRight(_)
StripRight(s) ==
    IF s # "" /\ IsSpace(Char(s, Len(s))) THEN StripRight(SubSeq(s, 1, Len(s) - 1)) ELSE s

\* str.strip()
strip(s) == StripRight(StripLeft(s))

Range(f) == {f[i] : i \in DOMAIN f}

RECURSIVE SumSeq(_)
SumSeq(s) == IF s = <<>> THEN 0 ELSE Head(s) + SumSeq(Tail(s))

\* how many entries of the list s equal x
Count(s, x) == Cardinality({i \in DOMAIN s : s[i] = x})

\* s[:n]: the first n items, and for a negative n all but the last -n
Take(s, n) ==
    SubSeq(s, 1, IF n < 0 THEN Len(s) + n ELSE IF n < Len(s) THEN n ELSE Len(s))

\* s[-n:] for the n that s[:n] keeps: as many items, from the end
TakeLast(s, n) == SubSeq(s, Len(s) - Len(Take(s, n)) + 1, Len(s))

-----------------------------------------------------------------------------
(* EnhancedSearch._tokenize                                                *)

MinTokenLen == 2

stopwords == {"der", "die", "das", "ein", "eine", "und", "oder", "für", "fuer",
              "mit", "bei", "von", "zu"}

\* text.lower(), then "-" -> " ", then re.sub(r'[^\w\s]', '', text): per character
NormaliseChar(c) ==
    LET l == LowerChar(c) IN
    IF l = "-" THEN " "
    ELSE IF IsWord(l) \/ IsSpace(l) THEN l
    ELSE ""

\* a tokenizer that lowers the text but keeps hyphens and punctuation
TokenizeOnSpaces(text) ==
    IF text = "" THEN <<>>
    ELSE SelectSeq(split(lower(text)),
                   LAMBDA t : Len(t) > MinTokenLen /\ t \notin stopwords)

\* a tokenizer that drops short words and stopwords before it removes the
\* punctuation
TokenizeFilterFirst(text) ==
    IF text = "" THEN <<>>
    ELSE LET words ==
                 SelectSeq(split(MapChars(LAMBDA c : IF c = "-" THEN " " ELSE LowerChar(c),
                                          text, 1)),
                           LAMBDA t : Len(t) > MinTokenLen /\ t \notin stopwords)
         IN [i \in DOMAIN words |-> MapChars(NormaliseChar, words[i], 1)]

_tokenize(text) ==
    IF text = "" THEN <<>>
    ELSE SelectSeq(split(MapChars(NormaliseChar, text, 1)),
                   LAMBDA t : Len(t) > MinTokenLen /\ t \notin stopwords)

-----------------------------------------------------------------------------
(* main.py: the data store and parse_xml_file.                             *)
(*                                                                         *)
(* A file is malformed (ET.parse raises) or holds a sequence of Datenfluss *)
(* elements, each given by the texts parse_xml_file reads from it (an      *)
(* absent element or an empty text is "": the code tests every field for   *)
(* truth only).  A flow is a dict object; search() writes its              *)
(* "search_score" key, absent until then.                                  *)

Malformed == [well_formed |-> FALSE, elements |-> <<>>]

XmlFile(elements) == [well_formed |-> TRUE, elements |-> elements]

EmptyStore ==
    [data_flows |-> <<>>, systems |-> {}, formats |-> {},
     transmission_methods |-> {}, interfaces |-> {}]

\* lines 108-118: the dict built for one Datenfluss element
DataFlowOf(el) ==
    [id |-> el.id, name |-> el.name, description |-> el.description,
     transmission_method |-> el.transmission_method, format |-> el.format,
     trigger |-> el.trigger, source_system |-> el.source_system,
     target_system |-> el.target_system, process_steps |-> el.process_steps,
     search_score |-> Absent]

\* lines 129-135: the transmission methods one element adds to the store
MethodsAdded(transmission) ==
    IF transmission # "" /\ StrIn(";", transmission)
    THEN {strip(m) : m \in {x \in Range(SplitOn(transmission, ";")) : strip(x) # ""}}
    ELSE IF transmission # "" THEN {transmission} ELSE {}

\* lines 70-135: the store after the loop over the file's elements
ParsedStore(els) ==
    [data_flows |-> Table([i \in DOMAIN els |-> DataFlowOf(els[i])]),
     systems |-> ({els[i].source_system : i \in DOMAIN els}
                  \cup {els[i].target_system : i \in DOMAIN els}) \ {""},
     formats |-> {els[i].format : i \in DOMAIN els} \ {""},
     transmission_methods |->
         UNION {MethodsAdded(els[i].transmission_method) : i \in DOMAIN els},
     interfaces |->
         UNION {{els[i].process_steps[k].interface : k \in DOMAIN els[i].process_steps}
                   : i \in DOMAIN els} \ {""}]

-----------------------------------------------------------------------------
(* EnhancedSearch.__init__: key terms, indices, variant tables.            *)

\* the lists a set can be turned into by list(set): every order
ListsOf(S) ==
    {p \in [1..Cardinality(S) -> S] : \A i, j \in 1..Cardinality(S) : p[i] = p[j] => i = j}

RECURSIVE SomeListOf(_)
\* one list of the set S
SomeListOf(S) ==
    IF S = {} THEN <<>> ELSE LET x == CHOOSE y \in S : TRUE IN <<x>> \o SomeListOf(S \ {x})

\* dict.setdefault(key, []).append(id), as lines 72-74, 86-88, ... do it
IndexAdd(idx, key, id) ==
    IF key \in DOMAIN idx
    THEN [idx EXCEPT ![key] = Append(@, id)]
    ELSE idx @@ (key :> <<id>>)

RECURSIVE IndexAddAll(_, _, _)
IndexAddAll(idx, keys, id) ==
    IF keys = <<>> THEN idx
    ELSE IndexAddAll(IndexAdd(idx, Head(keys), id), Tail(keys), id)

EmptyIndex == <<>>

\* the keys one flow is indexed under, per index (lines 68-118)
NameKeys(flow) == _tokenize(flow.name)

DescriptionKeys(flow) == _tokenize(flow.description)

SystemKeys(flow) ==
    SelectSeq(<<flow.source_system, flow.target_system>>, LAMBDA x : x # "")

FormatKeys(flow) == SelectSeq(<<flow.format>>, LAMBDA x : x # "")

TransmissionKeys(flow) ==
    IF flow.transmission_method = "" THEN <<>>
    ELSE SelectSeq([i \in DOMAIN SplitOn(flow.transmission_method, ";") |->
                       strip(SplitOn(flow.transmission_method, ";")[i])],
                   LAMBDA x : x # "")

InterfaceKeys(flow) ==
    SelectSeq([k \in DOMAIN flow.process_steps |-> flow.process_steps[k].interface],
              LAMBDA x : x # "")

RECURSIVE BuildIndex(_, _, _, _)
\* one inverted index over the flows from position i on
BuildIndex(Keys(_), flows, i, idx) ==
    IF i > Len(flows) THEN idx
    ELSE BuildIndex(Keys, flows, i + 1, IndexAddAll(idx, Keys(flows[i]), flows[i].id))

RECURSIVE BuildFlowIndex(_, _, _)
\* flow_index: the dict id -> flow, in insertion order; an entry is the id and
\* the position in data_store["data_flows"] of the flow object it refers to
BuildFlowIndex(flows, i, fi) ==
    IF i > Len(flows) THEN fi
    ELSE LET e == [id |-> flows[i].id, ref |-> i]
             at == {k \in DOMAIN fi : fi[k].id = flows[i].id}
         IN BuildFlowIndex(flows, i + 1,
                IF at = {} THEN Append(fi, e)
                ELSE [fi EXCEPT ![CHOOSE k \in at : TRUE] = e])

\* a variant list of GAS-X without the spelling in one word
VariantsAsSpelled(system) ==
    (IF StrIn("MIRA", system) THEN <<"mira", "mirasystem">> ELSE <<>>)
    \o (IF StrIn("GAS-X", system) THEN <<"gas-x", "gas x">> ELSE <<>>)
    \o (IF StrIn("GRID", system) THEN <<"grid", "netzseite">> ELSE <<>>)
    \o (IF StrIn("BKN", system) THEN <<"bkn", "bilanzkreis", "bilanzierung">> ELSE <<>>)
    \o (IF StrIn("Marktpartner", system)
        THEN <<"marktpartner", "shipper", "transportkunde", "lieferant">> ELSE <<>>)
    \o (IF StrIn("VHP", system) THEN <<"vhp", "portal", "web", "webportal">> ELSE <<>>)

\* prepare_synonym_mapping, lines 125-142
SystemVariantsOf(system) ==
    (IF StrIn("MIRA", system) THEN <<"mira", "mirasystem">> ELSE <<>>)
    \o (IF StrIn("GAS-X", system) THEN <<"gasx", "gas-x", "gas x">> ELSE <<>>)
    \o (IF StrIn("GRID", system) THEN <<"grid", "netzseite">> ELSE <<>>)
    \o (IF StrIn("BKN", system) THEN <<"bkn", "bilanzkreis", "bilanzierung">> ELSE <<>>)
    \o (IF StrIn("Marktpartner", system)
        THEN <<"marktpartner", "shipper", "transportkunde", "lieferant">> ELSE <<>>)
    \o (IF StrIn("VHP", system) THEN <<"vhp", "portal", "web", "webportal">> ELSE <<>>)

\* lines 145-162
FormatVariantsOf(format_name) ==
    CASE format_name = "NOMINT" -> <<"nominierung", "nomination", "nomint">>
      [] format_name = "NOMRES" ->
             <<"nominierungsantwort", "confirmation", "bestätigung", "bestaetigung">>
      [] format_name = "CONTRL" -> <<"kontrolle", "kontrollmeldung", "control">>
      [] format_name = "APERAK" -> <<"fehler", "fehlermeldung", "error">>
      [] format_name = "ACKNOW" ->
             <<"quittung", "bestätigung", "bestaetigung", "acknowledgement">>
      [] format_name = "ALOCAT" -> <<"allokation", "allocation", "zuteilung">>
      [] OTHER -> <<>>

\* lines 165-178
TransmissionVariantsOf(method) ==
    CASE method = "AS4" -> <<"as4", "as 4", "bsi">>
      [] method = "AS2" -> <<"as2", "as 2">>
      [] method = "SMTP" -> <<"smtp", "email", "e-mail", "mail">>
      [] method = "Webservice" -> <<"webservice", "web service", "web", "rest", "api">>
      [] OTHER -> <<>>

\* EnhancedSearch(data_store) with self.systems = list(set) enumerated as `systems`
NewSearcher(store, systems) ==
    [systems |-> systems,
     formats |-> SomeListOf(store.formats),
     transmission_methods |-> SomeListOf(store.transmission_methods),
     interfaces |-> SomeListOf(store.interfaces),
     flow_index |-> BuildFlowIndex(store.data_flows, 1, <<>>),
     name_index |-> BuildIndex(NameKeys, store.data_flows, 1, EmptyIndex),
     description_index |-> BuildIndex(DescriptionKeys, store.data_flows, 1, EmptyIndex),
     system_index |-> BuildIndex(SystemKeys, store.data_flows, 1, EmptyIndex),
     format_index |-> BuildIndex(FormatKeys, store.data_flows, 1, EmptyIndex),
     transmission_index |-> BuildIndex(TransmissionKeys, store.data_flows, 1, EmptyIndex),
     interface_index |-> BuildIndex(InterfaceKeys, store.data_flows, 1, EmptyIndex),
     system_variants |-> Table([s \in store.systems |-> SystemVariantsOf(s)]),
     format_variants |-> Table([f \in store.formats |-> FormatVariantsOf(f)]),
     transmission_variants |->
         Table([m \in store.transmission_methods |-> TransmissionVariantsOf(m)])]

-----------------------------------------------------------------------------
(* Scores and rapidfuzz.                                                   *)

\* one score unit is 1/ScoreUnit: 0.7, 1.5 and the fuzzy weights 4/5 and 8/9
\* are whole numbers of units
ScoreUnit == 2 * 5 * 9

\* the contributions of the four passes (lines 378-405, 456, 462, 491, 502)
BothRolesScore == 3 * ScoreUnit
DirectedRoleScore == 2 * ScoreUnit
SystemScore == 1 * ScoreUnit
FormatScore == 2 * ScoreUnit
MethodScore == (3 * ScoreUnit) \div 2
InterfaceScore == (5 * ScoreUnit) \div 2
NameTokenScore == 1 * ScoreUnit
DescriptionTokenScore == (7 * ScoreUnit) \div 10
PatternScore == 5 * ScoreUnit

FuzzyTermThreshold == 80
FuzzyTermLimit == 5
SystemMatchThreshold == 75
RelatedLimit == 10
DefaultMaxResults == 20

\* round(score, 2), in hundredths (no score of the model lies half-way)
Round2(u) == (200 * u + ScoreUnit) \div (2 * ScoreUnit)

Max2(a, b) == IF a >= b THEN a ELSE b

\* one row of the longest-common-subsequence table, from the previous row prev
\* and the character c:  cur[j] is the longest common subsequence of the
\* characters read so far and the first j characters of b
LcsRow(prev, c, b) ==
    Table([j \in 1..Len(b) |->
              LET ends == {k \in 1..j : Char(b, k) = c}
                  last == CHOOSE k \in ends : \A m \in ends : m <= k
              IN IF ends = {} THEN prev[j]
                 ELSE Max2(prev[j], (IF last = 1 THEN 0 ELSE prev[last - 1]) + 1)])

RECURSIVE LcsRows(_, _, _, _)
LcsRows(a, b, i, prev) ==
    IF i > Len(a) THEN prev ELSE LcsRows(a, b, i + 1, LcsRow(prev, Char(a, i), b))

\* the length of a longest common subsequence of a and b
Lcs(a, b) ==
    IF a = "" \/ b = "" THEN 0
    ELSE LcsRows(a, b, 1, Table([j \in 1..Len(b) |-> 0]))[Len(b)]

\* rapidfuzz.fuzz.ratio(a, b) = 100 * 2 * Lcs / (len(a) + len(b)), kept as the
\* fraction <<numerator, denominator>> of 2 * Lcs / (len(a) + len(b))
ratio(a, b) ==
    IF Len(a) + Len(b) = 0 THEN <<1, 1>> ELSE <<2 * Lcs(a, b), Len(a) + Len(b)>>

\* score >= threshold, for score = 100 * r[1] / r[2]
AtLeast(r, threshold) == 100 * r[1] >= threshold * r[2]

\* r > q as fractions
Better(r, q) == r[1] * q[2] > q[1] * r[2]

-----------------------------------------------------------------------------
(* EnhancedSearch: the query side.  `self` is the searcher, `flows` the    *)
(* flow objects of data_store["data_flows"] its flow_index refers to.      *)

FlowIds(self) == {self.flow_index[k].id : k \in DOMAIN self.flow_index}

\* self.flow_index[flow_id]
FlowOf(self, flows, flow_id) ==
    flows[self.flow_index[CHOOSE k \in DOMAIN self.flow_index :
                              self.flow_index[k].id = flow_id].ref]

\* `for flow_id in ids: flow_scores[flow_id] += Amount(flow_id)`
AddEach(flow_scores, ids, Amount(_)) ==
    Table([id \in DOMAIN flow_scores |-> flow_scores[id] + Count(ids, id) * Amount(id)])

RECURSIVE Dedup(_, _)
\* the distinct entries of a list, in the order of their first occurrence
Dedup(s, acc) ==
    IF s = <<>> THEN acc
    ELSE Dedup(Tail(s), IF Head(s) \in Range(acc) THEN acc ELSE Append(acc, Head(s)))

\* the first variant that occurs in the query (lines 313-317), if any
FirstVariantIn(variants, q) ==
    LET hits == {i \in DOMAIN variants : StrIn(variants[i], q)}
    IN IF hits = {} THEN Absent
       ELSE <<variants[CHOOSE i \in hits : \A j \in hits : i <= j]>>

NoMatch == [hit |-> FALSE, tokens |-> {}]

\* lines 305-317: whether one system matches, and the tokens it consumes
SystemMatch(self, system, q, query_tokens) ==
    LET system_tokens == Range(_tokenize(system))
        variant == FirstVariantIn(self.system_variants[system], q)
    IN IF system_tokens # {} /\ system_tokens \cap query_tokens # {}
       THEN [hit |-> TRUE, tokens |-> system_tokens]
       ELSE IF variant # Absent THEN [hit |-> TRUE, tokens |-> Range(split(variant[1]))]
       ELSE NoMatch

\* lines 320-343: whether one format or transmission method matches
CodeMatch(name, variants, q) ==
    LET variant == FirstVariantIn(variants, q)
    IN IF StrIn(lower(name), q) THEN [hit |-> TRUE, tokens |-> Range(split(lower(name)))]
       ELSE IF variant # Absent THEN [hit |-> TRUE, tokens |-> Range(split(variant[1]))]
       ELSE NoMatch

\* lines 346-349
InterfaceMatch(interface, q) ==
    IF StrIn(lower(interface), q)
    THEN [hit |-> TRUE, tokens |-> Range(split(lower(interface)))]
    ELSE NoMatch

NoDirection == "none"

\* lines 352-357
DirectionOf(q) ==
    IF StrIn("von", q) \/ StrIn("from", q) THEN "from"
    ELSE IF StrIn("zu", q) \/ StrIn("nach", q) \/ StrIn("to", q) THEN "to"
    ELSE IF StrIn("zwischen", q) \/ StrIn("between", q) THEN "between"
    ELSE NoDirection

Consumed(matches) == UNION {matches[i].tokens : i \in DOMAIN matches}

\* the names whose match hit, in the order of the list
Matched(names, matches) ==
    LET RECURSIVE From(_)
        From(i) == IF i > Len(names) THEN <<>>
                   ELSE (IF matches[i].hit THEN <<names[i]>> ELSE <<>>) \o From(i + 1)
    IN From(1)

\* lines 351 and 360-361: the result, from the lower-cased query, its tokens
\* and the matches of every system, format, method and interface.  The list
\* made of the set query_tokens - matched_tokens is in an unspecified order:
\* the model lists the tokens in the order of the query
Entities(self, q, tokens, sys, fmt, met, ifc) ==
    [systems |-> Matched(self.systems, sys),
     formats |-> Matched(self.formats, fmt),
     transmission_methods |-> Matched(self.transmission_methods, met),
     interfaces |-> Matched(self.interfaces, ifc),
     unknown_terms |->
         SelectSeq(Dedup(tokens, <<>>),
                   LAMBDA t : t \notin (Consumed(sys) \cup Consumed(fmt)
                                        \cup Consumed(met) \cup Consumed(ifc))),
     direction |-> DirectionOf(q)]

\* lines 292-349: the loops over the systems, formats, methods and interfaces
EntitiesOf(self, q, tokens) ==
    Entities(self, q, tokens,
        Table([i \in DOMAIN self.systems |->
                  SystemMatch(self, self.systems[i], q, Range(tokens))]),
        Table([i \in DOMAIN self.formats |->
                  CodeMatch(self.formats[i], self.format_variants[self.formats[i]], q)]),
        Table([i \in DOMAIN self.transmission_methods |->
                  CodeMatch(self.transmission_methods[i],
                            self.transmission_variants[self.transmission_methods[i]], q)]),
        Table([i \in DOMAIN self.interfaces |-> InterfaceMatch(self.interfaces[i], q)]))

_extract_entities(self, query) == EntitiesOf(self, lower(query), _tokenize(query))

-----------------------------------------------------------------------------
(* The four scoring passes.                                                *)

RECURSIVE FoldList(_, _, _)
\* `for x in list: acc = Step(acc, x)`
FoldList(Step(_, _), list, acc) ==
    IF list = <<>> THEN acc ELSE FoldList(Step, Tail(list), Step(acc, Head(list)))

RECURSIVE SumOver(_, _)
\* the sum of F(x) over the x of S
SumOver(F(_), S) ==
    IF S = {} THEN 0 ELSE LET x == CHOOSE y \in S : TRUE IN F(x) + SumOver(F, S \ {x})

\* `idx[key]` under the guard `if key in idx`
Lookup(idx, key) == IF key \in DOMAIN idx THEN idx[key] ELSE <<>>

\* lines 377-387: what one entry of system_index[system] adds to its flow
SystemCredit(flow, system, direction) ==
    IF flow.source_system = system /\ flow.target_system = system THEN BothRolesScore
    ELSE IF direction = "from" /\ flow.source_system = system THEN DirectedRoleScore
    ELSE IF direction = "to" /\ flow.target_system = system THEN DirectedRoleScore
    ELSE IF direction = "between" THEN SystemScore
    ELSE SystemScore

_search_with_entities(self, flows, entities, flow_scores) ==
    LET by_system ==
            FoldList(LAMBDA sc, system :
                         AddEach(sc, Lookup(self.system_index, system),
                                 LAMBDA id : SystemCredit(FlowOf(self, flows, id), system,
                                                          entities.direction)),
                     entities.systems, flow_scores)
        by_format ==
            FoldList(LAMBDA sc, format_name :
                         AddEach(sc, Lookup(self.format_index, format_name),
                                 LAMBDA id : FormatScore),
                     entities.formats, by_system)
        by_method ==
            FoldList(LAMBDA sc, method :
                         AddEach(sc, Lookup(self.transmission_index, method),
                                 LAMBDA id : MethodScore),
                     entities.transmission_methods, by_format)
    IN FoldList(LAMBDA sc, interface :
                    AddEach(sc, Lookup(self.interface_index, interface),
                            LAMBDA id : InterfaceScore),
                entities.interfaces, by_method)

MinFuzzyLen == 3

\* score / 100.0, in score units
Weight(r) == (ScoreUnit * r[1]) \div r[2]

\* the flows of flow_index, in its order
IndexedFlows(self, flows) ==
    Table([k \in DOMAIN self.flow_index |-> flows[self.flow_index[k].ref]])

\* lines 418-428: term_to_flow_map and all_terms
TermToFlowMap(self, flows) == BuildIndex(NameKeys, IndexedFlows(self, flows), 1, EmptyIndex)

AllTerms(self, flows) ==
    Dedup(FoldList(LAMBDA acc, flow : acc \o NameKeys(flow), IndexedFlows(self, flows), <<>>),
          <<>>)

\* process.extract(term, all_terms, scorer=fuzz.ratio, limit=5), given the
\* score of every choice: the positions of the best matches, ties going to the
\* earlier choice
extract(score) ==
    {i \in DOMAIN score :
        Cardinality({j \in DOMAIN score :
                        \/ Better(score[j], score[i])
                        \/ (~Better(score[i], score[j]) /\ j < i)}) < FuzzyTermLimit}

\* lines 438-443: what the matches `valid` of one term add
AddMatches(term_to_flow_map, all_terms, flow_scores, score, valid) ==
    Table([id \in DOMAIN flow_scores |->
              flow_scores[id]
              + SumOver(LAMBDA i : Count(term_to_flow_map[all_terms[i]], id)
                                   * Weight(score[i]),
                        valid)])

\* lines 436-439: the matches whose score reaches the threshold
MatchTerm(term_to_flow_map, all_terms, flow_scores, score) ==
    AddMatches(term_to_flow_map, all_terms, flow_scores, score,
               {i \in extract(score) : AtLeast(score[i], FuzzyTermThreshold)})

\* lines 431-443, for one term
FuzzyTerm(term_to_flow_map, all_terms, flow_scores, term) ==
    IF Len(term) < MinFuzzyLen THEN flow_scores
    ELSE MatchTerm(term_to_flow_map, all_terms, flow_scores,
                   Table([i \in DOMAIN all_terms |-> ratio(term, all_terms[i])]))

\* lines 431-443: the loop over the unknown terms
FuzzyTerms(term_to_flow_map, all_terms, unknown_terms, flow_scores) ==
    FoldList(LAMBDA sc, term : FuzzyTerm(term_to_flow_map, all_terms, sc, term),
             unknown_terms, flow_scores)

_fuzzy_term_matching(self, flows, unknown_terms, flow_scores) ==
    IF unknown_terms = <<>> THEN flow_scores
    ELSE FuzzyTerms(TermToFlowMap(self, flows), AllTerms(self, flows), unknown_terms,
                    flow_scores)

_fulltext_search(self, query_tokens, flow_scores) ==
    LET by_name ==
            FoldList(LAMBDA sc, token :
                         AddEach(sc, Lookup(self.name_index, token), LAMBDA id : NameTokenScore),
                     query_tokens, flow_scores)
    IN FoldList(LAMBDA sc, token :
                    AddEach(sc, Lookup(self.description_index, token),
                            LAMBDA id : DescriptionTokenScore),
                query_tokens, by_name)

\* lines 519-524: the best of the scores, if it reaches the threshold; of equal
\* scores the earlier system
BestMatch(systems, score) ==
    IF \E i \in DOMAIN systems : AtLeast(score[i], SystemMatchThreshold)
    THEN <<systems[CHOOSE i \in DOMAIN systems :
                      \A j \in DOMAIN systems :
                          ~Better(score[j], score[i])
                          /\ (Better(score[i], score[j]) \/ i <= j)]>>
    ELSE Absent

\* the substring test without lower() on the system
CaseSensitiveMatches(systems, term) ==
    {i \in DOMAIN systems : StrIn(term, systems[i]) \/ StrIn(systems[i], term)}

\* lines 514-516: the systems that hold the term or are held by it
ExactMatches(systems, term) ==
    {i \in DOMAIN systems :
        \/ StrIn(term, lower(systems[i]))
        \/ StrIn(lower(systems[i]), term)}

\* lines 514-524: the first of the systems `exact`, or else the best match
FirstOrBest(systems, term, exact) ==
    IF exact # {} THEN <<systems[CHOOSE i \in exact : \A j \in exact : i <= j]>>
    ELSE BestMatch(systems, Table([i \in DOMAIN systems |-> ratio(term, systems[i])]))

\* lines 504-524
_find_best_system_match(self, term) ==
    IF term = "" THEN Absent
    ELSE FirstOrBest(self.systems, term, ExactMatches(self.systems, lower(term)))

-----------------------------------------------------------------------------
(* re.search for the four direction patterns (lines 472-480), each of the  *)
(* shape  kw1 \s+ (\w+) [\s\w]{gap,} kw2 \s+ (\w+)  with gap 0 ("*") or 1  *)
(* ("+"): leftmost match, every quantifier greedy with backtracking.       *)

direction_patterns ==
    << [kw1 |-> "von", kw2 |-> "nach", gap |-> 0, pattern_type |-> "from_to"],
       [kw1 |-> "from", kw2 |-> "to", gap |-> 0, pattern_type |-> "from_to"],
       [kw1 |-> "zwischen", kw2 |-> "und", gap |-> 1, pattern_type |-> "between"],
       [kw1 |-> "between", kw2 |-> "and", gap |-> 1, pattern_type |-> "between"] >>

RECURSIVE RunEnd(_, _, _)
\* the first position from i on whose character is not In (Len(t) + 1 if none)
RunEnd(In(_), t, i) ==
    IF i <= Len(t) /\ In(Char(t, i)) THEN RunEnd(In, t, i + 1) ELSE i

IsWordOrSpace(c) == IsWord(c) \/ IsSpace(c)

NoGroups == [matched |-> FALSE, g1 |-> "", g2 |-> ""]

\* kw \s+ at position i: where the word after the keyword would start
ArgStart(t, kw, i) == RunEnd(IsSpace, t, i + Len(kw))

\* kw \s+ \w at position i
HasArg(t, kw, i) ==
    /\ i + Len(kw) - 1 <= Len(t)
    /\ SubSeq(t, i, i + Len(kw) - 1) = kw
    /\ ArgStart(t, kw, i) > i + Len(kw)
    /\ ArgStart(t, kw, i) <= Len(t)
    /\ IsWord(Char(t, ArgStart(t, kw, i)))

\* the starts of  kw2 \s+ \w
Tails(pat, t) == {j \in 1..Len(t) : HasArg(t, pat.kw2, j)}

\* with group 1 starting at b: the ends p (exclusive) of group 1 and the starts
\* j of kw2 that complete a match
WaysFrom(pat, t, b) ==
    {w \in ((b + 1)..RunEnd(IsWord, t, b)) \X Tails(pat, t) :
        w[2] >= w[1] + pat.gap /\ w[2] <= RunEnd(IsWordOrSpace, t, b)}

\* the same, with kw1 at s
Ways(pat, t, s) == WaysFrom(pat, t, ArgStart(t, pat.kw1, s))

\* the groups of the match with group 1 = t[b..p-1] and kw2 at j
Groups(pat, t, b, p, j) ==
    [matched |-> TRUE,
     g1 |-> SubSeq(t, b, p - 1),
     g2 |-> SubSeq(t, ArgStart(t, pat.kw2, j),
                   RunEnd(IsWord, t, ArgStart(t, pat.kw2, j)) - 1)]

\* greedy: of the ways, the longest group 1 ...
LongestGroup(ways) == CHOOSE p \in {w[1] : w \in ways} : \A w \in ways : p >= w[1]

\* ... and then the longest [\s\w] run
LastTail(ways, p) ==
    CHOOSE j \in {w[2] : w \in {v \in ways : v[1] = p}} :
        \A w \in {v \in ways : v[1] = p} : j >= w[2]

\* the match with group 1 starting at b, of the ways it can be completed
GreedyMatch(pat, t, b, ways) ==
    Groups(pat, t, b, LongestGroup(ways), LastTail(ways, LongestGroup(ways)))

\* the match with kw1 at s
MatchAt(pat, t, s) == GreedyMatch(pat, t, ArgStart(t, pat.kw1, s), Ways(pat, t, s))

\* the positions of kw1 a match can start at
Starts(pat, t) == {s \in 1..Len(t) : HasArg(t, pat.kw1, s) /\ Ways(pat, t, s) # {}}

\* the leftmost match, of the positions it can start at
Leftmost(pat, t, starts) ==
    IF starts = {} THEN NoGroups
    ELSE MatchAt(pat, t, CHOOSE s \in starts : \A y \in starts : s <= y)

\* re.search(pattern, t)
re_search(pat, t) == Leftmost(pat, t, Starts(pat, t))

\* a test that takes the pair in either order for every pattern type
PatternHitEitherWay(pat, flow, system1, system2) ==
    \/ flow.source_system = system1 /\ flow.target_system = system2
    \/ flow.source_system = system2 /\ flow.target_system = system1

\* the tests of lines 489-490 and 500-501
PatternHit(pat, flow, system1, system2) ==
    \/ flow.source_system = system1 /\ flow.target_system = system2
    \/ /\ pat.pattern_type = "between"
       /\ flow.source_system = system2 /\ flow.target_system = system1

\* lines 487-502: `if system1 and system2:` and the loop over the flows
AddPattern(self, flows, flow_scores, pat, system1, system2) ==
    IF system1 = Absent \/ system2 = Absent THEN flow_scores
    ELSE Table([id \in DOMAIN flow_scores |->
                   flow_scores[id]
                   + IF PatternHit(pat, FlowOf(self, flows, id), system1[1], system2[1])
                     THEN PatternScore ELSE 0])

\* lines 481-485: `if matches:` and the two phrases
ApplyMatch(self, flows, flow_scores, pat, m) ==
    IF ~m.matched THEN flow_scores
    ELSE AddPattern(self, flows, flow_scores, pat,
                    _find_best_system_match(self, m.g1),
                    _find_best_system_match(self, m.g2))

\* lines 481-502, for one pattern
ApplyPattern(self, flows, q, flow_scores, pat) ==
    ApplyMatch(self, flows, flow_scores, pat, re_search(pat, q))

_pattern_based_search(self, flows, query, flow_scores) ==
    FoldList(LAMBDA sc, pat : ApplyPattern(self, flows, lower(query), sc, pat),
             direction_patterns, flow_scores)

-----------------------------------------------------------------------------
(* EnhancedSearch._generate_response and EnhancedSearch.search.            *)

RECURSIVE Join(_, _)
\* sep.join(list)
Join(sep, list) ==
    IF list = <<>> THEN ""
    ELSE IF Len(list) = 1 THEN list[1]
    ELSE list[1] \o sep \o Join(sep, Tail(list))

\* the systems the flows of a list name as source or target
SystemsOf(flow_list) ==
    ({flow_list[i].source_system : i \in DOMAIN flow_list}
     \cup {flow_list[i].target_system : i \in DOMAIN flow_list}) \ {""}

NothingFound(query) ==
    "Ich konnte keine Datenflüsse finden, die zu Ihrer Anfrage '" \o query \o "' passen."

\* lines 610-613
RelatedClause(related_flows) ==
    IF related_flows # <<>>
    THEN ". Zusätzlich gibt es " \o ToString(Len(related_flows))
         \o " verwandte Datenflüsse, die mit ähnlichen Systemen verbunden sind"
    ELSE "."

\* lines 545-567, for one category of entities
Mention(list, one, many) ==
    IF list = <<>> THEN <<>>
    ELSE IF Len(list) = 1 THEN <<one \o " " \o list[1]>>
    ELSE <<many \o " " \o Join(", ", list)>>

\* lines 576-607 (a set is joined in an unspecified order: the model takes one)
DirectClause(direct_results) ==
    IF direct_results = <<>> THEN "keine direkt passenden Datenflüsse gefunden"
    ELSE IF Len(direct_results) = 1
    THEN LET flow == direct_results[1]
             flow_details ==
                 (IF flow.source_system # "" /\ flow.target_system # ""
                  THEN <<"von " \o flow.source_system \o " nach " \o flow.target_system>>
                  ELSE <<>>)
                 \o (IF flow.format # "" THEN <<"im Format " \o flow.format>> ELSE <<>>)
                 \o (IF flow.transmission_method # ""
                     THEN <<"über " \o flow.transmission_method>> ELSE <<>>)
         IN "einen passenden Datenfluss gefunden: '" \o flow.name \o "'"
            \o (IF flow_details # <<>> THEN " (" \o Join(", ", flow_details) \o ")" ELSE "")
    ELSE LET systems_in_results == SystemsOf(direct_results)
         IN ToString(Len(direct_results)) \o " passende Datenflüsse gefunden"
            \o (IF systems_in_results # {} /\ Cardinality(systems_in_results) <= 5
                THEN ", beteiligt sind die Systeme "
                     \o Join(", ", SomeListOf(systems_in_results))
                ELSE "")

_generate_response(query, direct_results, related_flows, entities) ==
    IF direct_results = <<>> /\ related_flows = <<>> THEN NothingFound(query)
    ELSE LET entity_mention ==
                 Mention(entities.systems, "das System", "die Systeme")
                 \o Mention(entities.formats, "das Format", "die Formate")
                 \o Mention(entities.transmission_methods,
                            "die Übertragungsmethode", "die Übertragungsmethoden")
                 \o Mention(entities.interfaces, "die Schnittstelle", "die Schnittstellen")
         IN (IF entity_mention # <<>>
             THEN "Für Ihre Anfrage zu " \o Join(" und ", entity_mention) \o " habe ich "
             ELSE "Für Ihre Anfrage '" \o query \o "' habe ich ")
            \o DirectClause(direct_results)
            \o RelatedClause(related_flows)

\* a sort that is not stable: an item goes before the items of its own score
InsertBeforeEqual(sorted, item) ==
    LET k == Cardinality({i \in DOMAIN sorted : sorted[i].score > item.score})
    IN SubSeq(sorted, 1, k) \o <<item>> \o SubSeq(sorted, k + 1, Len(sorted))

\* one step of sorted(items, key=score, reverse=True): a stable insertion, after
\* every item whose score is not lower
InsertByScore(sorted, item) ==
    LET k == Cardinality({i \in DOMAIN sorted : sorted[i].score >= item.score})
    IN SubSeq(sorted, 1, k) \o <<item>> \o SubSeq(sorted, k + 1, Len(sorted))

\* the sorted list without the filter `if score > 0`
SortedUnfiltered(self, flow_scores) ==
    FoldList(InsertByScore,
             Table([k \in DOMAIN self.flow_index |->
                       [flow_id |-> self.flow_index[k].id,
                        score |-> flow_scores[self.flow_index[k].id]]]),
             <<>>)

\* lines 218-222: the flows with a positive score, best first
SortedResults(self, flow_scores) ==
    FoldList(InsertByScore,
             SelectSeq(Table([k \in DOMAIN self.flow_index |->
                                 [flow_id |-> self.flow_index[k].id,
                                  score |-> flow_scores[self.flow_index[k].id]]]),
                       LAMBDA x : x.score > 0),
             <<>>)

(* The locals of search() after each statement of lines 193-222, as a      *)
(* record that grows by the names the statement assigns.                   *)

\* lines 193-200: query, query_tokens and the entities as _extract_entities
\* returns them
Extracted(self, text) ==
    [query |-> lower(text),
     query_tokens |-> _tokenize(lower(text)),
     extracted |-> _extract_entities(self, lower(text))]

\* line 197 and lines 207-208: flow_scores starts at 0.0 for every flow;
\* `if not unknown_terms: unknown_terms = query_tokens` writes the list that
\* query_entities holds
Prepared(self, st) ==
    [query_entities |->
         [st.extracted EXCEPT !.unknown_terms =
              IF st.extracted.unknown_terms = <<>> THEN st.query_tokens
              ELSE st.extracted.unknown_terms],
     zero_scores |-> Table([id \in FlowIds(self) |-> 0])] @@ st

\* line 204
AfterEntities(self, flows, st) ==
    [entity_scores |->
         _search_with_entities(self, flows, st.extracted, st.zero_scores)] @@ st

\* line 209
AfterFuzzy(self, flows, st) ==
    [fuzzy_scores |->
         _fuzzy_term_matching(self, flows, st.query_entities.unknown_terms,
                              st.entity_scores)] @@ st

\* line 212
AfterFulltext(self, st) ==
    [fulltext_scores |-> _fulltext_search(self, st.query_tokens, st.fuzzy_scores)] @@ st

\* line 215
AfterPatterns(self, flows, st) ==
    [flow_scores |->
         _pattern_based_search(self, flows, st.query, st.fulltext_scores)] @@ st

\* lines 218-222
AfterSorting(self, st) ==
    [sorted_results |-> SortedResults(self, st.flow_scores)] @@ st

\* lines 193-222: the entities, the score map after each of the four passes
\* and the sorted results
Scored(self, flows, text) ==
    AfterSorting(self,
        AfterPatterns(self, flows,
            AfterFulltext(self,
                AfterFuzzy(self, flows,
                    AfterEntities(self, flows,
                        Prepared(self, Extracted(self, text)))))))

\* the position in data_store["data_flows"] of the flow object flow_index holds
\* under flow_id
RefOf(self, flow_id) ==
    self.flow_index[CHOOSE k \in DOMAIN self.flow_index :
                        self.flow_index[k].id = flow_id].ref

\* lines 227-230: `flow["search_score"] = round(score, 2)` on the flow objects
\* of the first max_results sorted results
Annotated(self, flows, top) ==
    Table([i \in DOMAIN flows |->
              IF \E k \in DOMAIN top : RefOf(self, top[k].flow_id) = i
              THEN [flows[i] EXCEPT !.search_score =
                       <<Round2(top[CHOOSE k \in DOMAIN top :
                                        RefOf(self, top[k].flow_id) = i].score)>>]
              ELSE flows[i]])

\* lines 225-230: direct_results, the annotated flow objects in sorted order
DirectResults(self, flows_after, top) ==
    Table([k \in DOMAIN top |-> flows_after[RefOf(self, top[k].flow_id)]])

\* every flow on a system of matching_systems, the direct results among them
FlowsOnSystems(self, flows_after, direct_results, matching_systems) ==
    SelectSeq(IndexedFlows(self, flows_after),
              LAMBDA flow :
                  \/ flow.source_system # "" /\ flow.source_system \in matching_systems
                  \/ flow.target_system # "" /\ flow.target_system \in matching_systems)

\* lines 239-246: the flows outside direct_results on a system of matching_systems
RelatedFlows(self, flows_after, direct_results, matching_systems) ==
    SelectSeq(IndexedFlows(self, flows_after),
              LAMBDA flow :
                  /\ flow \notin Range(direct_results)
                  /\ \/ flow.source_system # "" /\ flow.source_system \in matching_systems
                     \/ flow.target_system # "" /\ flow.target_system \in matching_systems)

\* the last RelatedLimit related flows instead of the first
LastRelated(related_flows) == TakeLast(related_flows, RelatedLimit)

\* line 254: related_flows[:10]
FirstRelated(related_flows) == Take(related_flows, RelatedLimit)

\* lines 249-263: the returned dict, the flow objects as the call leaves them
\* and the call's locals
Returned(sc, max_results, flows_after, direct_results, related_flows) ==
    [results |->
         [kind |-> "enhanced",
          direct_results |-> direct_results,
          related_flows |-> FirstRelated(related_flows),
          matching_systems |-> SystemsOf(direct_results),
          query_entities |-> sc.query_entities,
          natural_response |->
              _generate_response(sc.query, direct_results, related_flows,
                                 sc.query_entities)],
     flows |-> flows_after,
     locals |-> [kind |-> "search",
                 max_results |-> max_results,
                 scored |-> sc,
                 related_flows |-> related_flows]]

RankedFrom(self, sc, max_results, flows_after, direct_results) ==
    Returned(sc, max_results, flows_after, direct_results,
             RelatedFlows(self, flows_after, direct_results, SystemsOf(direct_results)))

RankedTop(self, sc, max_results, flows_after, top) ==
    RankedFrom(self, sc, max_results, flows_after, DirectResults(self, flows_after, top))

\* the lowest-scored max_results of the sorted results instead of the highest
RankedLowest(self, flows, sc, max_results) ==
    RankedTop(self, sc, max_results,
              Annotated(self, flows, TakeLast(sc.sorted_results, max_results)),
              TakeLast(sc.sorted_results, max_results))

\* lines 225-263: from the scores to the result
Ranked(self, flows, sc, max_results) ==
    RankedTop(self, sc, max_results,
              Annotated(self, flows, Take(sc.sorted_results, max_results)),
              Take(sc.sorted_results, max_results))

\* EnhancedSearch.search(query, max_results)
search(self, flows, query, max_results) ==
    Ranked(self, flows, Scored(self, flows, query), max_results)

-----------------------------------------------------------------------------
(* main.py: process_basic_query, the fallback of the query endpoint.       *)

BasicScore(flow, q) ==
    (IF flow.name # "" /\ StrIn(q, lower(flow.name)) THEN 2 * ScoreUnit ELSE 0)
    + (IF flow.description # "" /\ StrIn(q, lower(flow.description)) THEN ScoreUnit ELSE 0)
    + (IF flow.source_system # "" /\ StrIn(q, lower(flow.source_system))
       THEN (3 * ScoreUnit) \div 2 ELSE 0)
    + (IF flow.target_system # "" /\ StrIn(q, lower(flow.target_system))
       THEN (3 * ScoreUnit) \div 2 ELSE 0)
    + (IF flow.format # "" /\ StrIn(q, lower(flow.format)) THEN (3 * ScoreUnit) \div 2 ELSE 0)
    + (IF flow.transmission_method # "" /\ StrIn(q, lower(flow.transmission_method))
       THEN ScoreUnit ELSE 0)
    + (IF \E k \in DOMAIN flow.process_steps :
              flow.process_steps[k].interface # ""
              /\ StrIn(q, lower(flow.process_steps[k].interface))
       THEN ScoreUnit ELSE 0)

\* lines 286-322: the copies of the flows that score, best first
BasicResults(store, query) ==
    FoldList(InsertByScore,
             SelectSeq(Table([i \in DOMAIN store.data_flows |->
                                 [flow |-> store.data_flows[i],
                                  score |-> BasicScore(store.data_flows[i], query)]]),
                       LAMBDA x : x.score > 0),
             <<>>)

\* lines 317-319: flow.copy() with its search_score, in hundredths
BasicCopies(ordered) ==
    Table([k \in DOMAIN ordered |->
              [ordered[k].flow EXCEPT
                   !.search_score = <<(100 * ordered[k].score) \div ScoreUnit>>]])

\* lines 324-353
BasicResponse(store, query, results) ==
    [kind |-> "basic",
     direct_results |-> results,
     related_flows |->
         SelectSeq(store.data_flows,
                   LAMBDA flow :
                       /\ flow \notin Range(results)
                       /\ \/ /\ flow.source_system # ""
                             /\ flow.source_system \in SystemsOf(results)
                          \/ /\ flow.target_system # ""
                             /\ flow.target_system \in SystemsOf(results)),
     matching_systems |-> SystemsOf(results),
     natural_response |->
         IF results # <<>>
         THEN "Für die Suche nach '" \o query \o "' wurden " \o ToString(Len(results))
              \o " relevante Datenflüsse gefunden."
         ELSE "Es wurden keine Datenflüsse gefunden, die zur Suche nach '" \o query
              \o "' passen.",
     results |-> results,
     count |-> Len(results),
     query |-> query]

\* lines 278-353
process_basic_query(store, text) ==
    BasicResponse(store, lower(text), BasicCopies(BasicResults(store, lower(text))))

-----------------------------------------------------------------------------
(* The inputs: what datenfluesse.xml may hold and what a client may ask.   *)

Step(interface) == [step_type |-> "Transfer", interface |-> interface]

Datenfluss(id, name, description, transmission, format, source, target, steps) ==
    [id |-> id, name |-> name, description |-> description,
     transmission_method |-> transmission, format |-> format, trigger |-> "",
     source_system |-> source, target_system |-> target, process_steps |-> steps]

\* the catalog of the specification's example: two flows, opposite directions
ExampleFile ==
    XmlFile(<< Datenfluss("R1", "", "", "", "NOMINT", "GRID", "MIRA", <<>>),
               Datenfluss("R2", "", "", "", "NOMRES", "MIRA", "GRID", <<>>) >>)

\* names, descriptions, methods and interfaces; a system with a hyphen; a flow
\* with two steps on one interface; a flow from a system to itself whose name is
\* too short to give a token
GasFile ==
    XmlFile(<< Datenfluss("F1", "Nominierung Eingang", "Lieferung der Daten", "AS4",
                          "NOMINT", "GAS-X", "MIRA", <<Step("IF-01")>>),
               Datenfluss("F2", "Nominierung Antwort", "", "AS2; SMTP",
                          "NOMRES", "MIRA", "GAS-X",
                          <<Step("IF-01"), Step(""), Step("IF-01")>>),
               Datenfluss("F3", "A1", "Export", "", "", "GRID", "GRID", <<>>),
               Datenfluss("F4", "GRID MIRA Export", "", "AS4", "NOMINT", "GRID", "MIRA",
                          <<>>) >>)

\* one system name inside another, and a system name in lower case
MarketFile ==
    XmlFile(<< Datenfluss("M1", "Lieferung", "", "", "ALOCAT", "Marktpartner", "GRID", <<>>),
               Datenfluss("M2", "Lieferung", "", "", "", "GRID-OST", "Marktpartner", <<>>),
               Datenfluss("M3", "", "Daten Export", "", "", "GRID-OST", "GRID", <<>>) >>)

\* more flows on one system than the related list keeps
HubFlow(n) ==
    Datenfluss("H" \o ToString(n), IF n = 1 THEN "Export Daten" ELSE "Meldung", "", "", "",
               IF n % 2 = 1 THEN "GRID" ELSE "MIRA", IF n % 2 = 1 THEN "MIRA" ELSE "GRID",
               <<>>)

HubSize == RelatedLimit + 2

HubFile == XmlFile([n \in 1..HubSize |-> HubFlow(n)])

XmlFiles == {Malformed, ExampleFile, GasFile, MarketFile, HubFile}

\* the words and phrases the queries are made of
QueryWords == {"grid", "mira", "gasx", "lieferung"}

Phrases == {"grid", "mira", "marktpartnr"}

\* the longest free-text query, in words
MaxQueryWords == 2

WordLists == UNION {[1..n -> QueryWords] : n \in 0..MaxQueryWords}

FreeQueries == {Join(" ", w) : w \in WordLists}

DirectionalQueries ==
    {direction_patterns[k].kw1 \o " " \o x \o " " \o direction_patterns[k].kw2 \o " " \o y :
        k \in DOMAIN direction_patterns, x \in Phrases, y \in Phrases}

OtherQueries ==
    {"von GRID nach MIRA", "Nominierung Eingang", "export-daten!", "A1",
     "GRID MIRA Export", "Export Daten", "export", "grid mira lieferung", "grids",
     "datem", "nomint as4", "if-01 zuteilung", "von foo nach mira",
     "between grid and foo", "zwischen grid x und mira",
     "von grid nach mira zwischen mira und grid"}

Queries == FreeQueries \cup DirectionalQueries \cup OtherQueries

\* the largest max_results a direct caller of search() passes, besides the default
MaxK == 1

\* max_results is an int: a negative one, the small ones and the default
MaxResultsValues == {-1} \cup (0..MaxK) \cup {DefaultMaxResults}

-----------------------------------------------------------------------------
(* The service.                                                            *)

NoFrame == [kind |-> "none"]

Init ==
    /\ xml_file \in XmlFiles
    /\ request \in Queries
    /\ data_store = EmptyStore
    /\ enhanced_searcher = None
    /\ phase = "boot"
    /\ response = None
    /\ frame = NoFrame
    /\ held = None

\* A kept result is the list direct_results of an earlier call: `refs` are the
\* flow objects it refers to (their positions in data_store["data_flows"]),
\* `returned` their values when the call returned and `now` their values now.
\* The list is `live` while its flow objects are those of the store.
Kept(direct_results, refs) ==
    [kind |-> "held", refs |-> refs, returned |-> direct_results,
     now |-> direct_results, live |-> TRUE]

\* the kept result once a call has left the store's flow objects as `flows`
HeldSeeing(flows) ==
    IF held # None /\ held.live
    THEN [held EXCEPT !.now = Table([k \in DOMAIN held.refs |-> flows[held.refs[k]]])]
    ELSE held

\* lines 70-74 of main.py: the store gets new lists and sets, and the loop new
\* flow dicts; the flow objects of a kept result are no longer those of the store
HeldApart == IF held # None THEN [held EXCEPT !.live = FALSE] ELSE held

\* a parse that, when it fails, leaves the service without searcher and catalog
ParseOrDrop ==
    IF ~xml_file.well_formed
    THEN data_store' = EmptyStore /\ enhanced_searcher' = None /\ held' = HeldApart
    ELSE /\ data_store' = ParsedStore(xml_file.elements)
         /\ \E systems \in ListsOf(ParsedStore(xml_file.elements).systems) :
                enhanced_searcher' = NewSearcher(ParsedStore(xml_file.elements), systems)
         /\ held' = HeldApart

\* a reload that refills the store but leaves an existing searcher in place
ParseInPlace ==
    IF ~xml_file.well_formed
    THEN UNCHANGED <<data_store, enhanced_searcher, held>>
    ELSE /\ data_store' = ParsedStore(xml_file.elements)
         /\ IF enhanced_searcher # None THEN UNCHANGED enhanced_searcher
            ELSE \E systems \in ListsOf(ParsedStore(xml_file.elements).systems) :
                     enhanced_searcher' = NewSearcher(ParsedStore(xml_file.elements), systems)
         /\ held' = HeldApart

\* a parse that empties and fills the store while it reads the file, and so has
\* replaced the catalog by the time a malformed file makes it fail
ParseAsRead ==
    IF ~xml_file.well_formed
    THEN /\ data_store' = ParsedStore(xml_file.elements)
         /\ held' = HeldApart
         /\ UNCHANGED enhanced_searcher
    ELSE /\ data_store' = ParsedStore(xml_file.elements)
         /\ \E systems \in ListsOf(ParsedStore(xml_file.elements).systems) :
                enhanced_searcher' = NewSearcher(ParsedStore(xml_file.elements), systems)
         /\ held' = HeldApart

\* parse_xml_file("datenfluesse.xml"): ET.parse raises on a malformed file, before
\* the store is touched; otherwise the store is rebuilt and a new searcher made
ParseXmlFile ==
    IF ~xml_file.well_formed
    THEN UNCHANGED <<data_store, enhanced_searcher, held>>
    ELSE /\ data_store' = ParsedStore(xml_file.elements)
         /\ \E systems \in ListsOf(ParsedStore(xml_file.elements).systems) :
                enhanced_searcher' = NewSearcher(ParsedStore(xml_file.elements), systems)
         /\ held' = HeldApart

\* startup_event
Startup ==
    /\ phase = "boot"
    /\ phase' = "serving"
    /\ ParseXmlFile
    /\ UNCHANGED <<xml_file, request, response, frame>>

\* what a call of enhanced_searcher.search(text, max_results) does to the state
Searched(call) ==
    /\ response' = call.results
    /\ frame' = call.locals
    /\ data_store' = [data_store EXCEPT !.data_flows = call.flows]
    /\ held' = HeldSeeing(call.flows)

\* POST /api/query: natural_language_query
NaturalLanguageQuery ==
    /\ phase = "serving"
    /\ IF enhanced_searcher # None
       THEN \E call \in {search(enhanced_searcher, data_store.data_flows, request,
                                 DefaultMaxResults)} : Searched(call)
       ELSE /\ response' = process_basic_query(data_store, request)
            /\ frame' = NoFrame
            /\ UNCHANGED <<data_store, held>>
    /\ UNCHANGED <<xml_file, enhanced_searcher, phase, request>>

\* a direct call of the core's search(text, max_results)
SearchCall ==
    /\ phase = "serving"
    /\ enhanced_searcher # None
    /\ \E sc \in {Scored(enhanced_searcher, data_store.data_flows, request)} :
           \E max_results \in MaxResultsValues :
               \E call \in {Ranked(enhanced_searcher, data_store.data_flows, sc,
                                   max_results)} : Searched(call)
    /\ UNCHANGED <<xml_file, enhanced_searcher, phase, request>>

\* POST /api/reload: reload_data
ReloadData ==
    /\ phase = "serving"
    /\ ParseXmlFile
    /\ response' = [kind |-> "reload", success |-> xml_file.well_formed]
    /\ frame' = NoFrame
    /\ UNCHANGED <<xml_file, phase, request>>

Next == Startup \/ NaturalLanguageQuery \/ SearchCall \/ ReloadData

Spec == Init /\ [][Next]_vars

-----------------------------------------------------------------------------
(* The service over time: datenfluesse.xml is rewritten between reloads,    *)
(* clients send one query after another and keep what they were returned.   *)
(* The handlers are coroutines without an await in them (main.py lines      *)
(* 226-241 and 357-363 call search() and parse_xml_file() synchronously),   *)
(* so the event loop runs each of them from start to end: a handler is one  *)
(* step.                                                                    *)

\* a file cut off behind its last Datenfluss element: ET.parse (line 66) reads
\* the elements and raises at the end of the file
TruncatedFile == [well_formed |-> FALSE, elements |-> GasFile.elements]

ServiceFiles == {Malformed, TruncatedFile, ExampleFile, MarketFile}

ServiceQueries == {"grid", "von GRID nach MIRA"}

InitService ==
    /\ xml_file \in ServiceFiles
    /\ request \in ServiceQueries
    /\ data_store = EmptyStore
    /\ enhanced_searcher = None
    /\ phase = "boot"
    /\ response = None
    /\ frame = NoFrame
    /\ held = None

\* datenfluesse.xml is replaced by another file
FileChanged ==
    /\ xml_file' \in ServiceFiles \ {xml_file}
    /\ UNCHANGED <<data_store, enhanced_searcher, phase, request, response, frame, held>>

\* the next client sends another query
NewRequest ==
    /\ request' \in ServiceQueries \ {request}
    /\ UNCHANGED <<xml_file, data_store, enhanced_searcher, phase, response, frame, held>>

\* the client of the last enhanced search keeps the list direct_results
KeepResult ==
    /\ response.kind = "enhanced"
    /\ held' = Kept(response.direct_results,
                    Table([k \in DOMAIN response.direct_results |->
                              RefOf(enhanced_searcher, response.direct_results[k].id)]))
    /\ UNCHANGED <<xml_file, data_store, enhanced_searcher, phase, request, response, frame>>

NextService ==
    \/ Startup
    \/ NaturalLanguageQuery
    \/ ReloadData
    \/ FileChanged
    \/ NewRequest
    \/ KeepResult

Service == InitService /\ [][NextService]_vars

-----------------------------------------------------------------------------
(* The properties.  `frame` holds the locals of the last search() call and *)
(* `response` what it returned, so a property of one call is an invariant  *)
(* over the two.                                                           *)

\* the last call was a call of EnhancedSearch.search
SearchReturned == frame.kind = "search"

\* the score the four passes gave the flow, in units of 1/ScoreUnit
FinalScore(flow) == frame.scored.flow_scores[flow.id]

\* the position of the flow in the catalog, data_store["data_flows"]
CatalogPosition(flow) ==
    CHOOSE k \in DOMAIN data_store.data_flows : data_store.data_flows[k].id = flow.id

\* C1: the direct_results search() returns are ordered by score descending, two
\* records of equal score appear in catalog order, and no record of score 0 is
\* among them; the search_score each record carries is its score rounded to two
\* decimals, so it is positive and never rises along the list either.
C1_DirectResultsSorted ==
    SearchReturned =>
        LET direct_results == response.direct_results
        IN /\ \A i, j \in DOMAIN direct_results :
                  i < j =>
                      /\ FinalScore(direct_results[i]) >= FinalScore(direct_results[j])
                      /\ FinalScore(direct_results[i]) = FinalScore(direct_results[j])
                             => CatalogPosition(direct_results[i])
                                    < CatalogPosition(direct_results[j])
                      /\ direct_results[i].search_score[1]
                             >= direct_results[j].search_score[1]
           /\ \A i \in DOMAIN direct_results :
                  /\ FinalScore(direct_results[i]) > 0
                  /\ direct_results[i].search_score
                         = <<Round2(FinalScore(direct_results[i]))>>
                  /\ direct_results[i].search_score[1] > 0

\* a call that returned two records of equal score, a record of a lower score
\* after them, and left a record of score 0 out
C1_Witness ==
    /\ SearchReturned
    /\ \E i, j, k \in DOMAIN response.direct_results :
           /\ i < j /\ j < k
           /\ FinalScore(response.direct_results[i]) = FinalScore(response.direct_results[j])
           /\ FinalScore(response.direct_results[j]) > FinalScore(response.direct_results[k])
    /\ \E id \in DOMAIN frame.scored.flow_scores : frame.scored.flow_scores[id] = 0

\* the systems of the flow, as the code collects them: the empty name is none
SystemsOfFlow(flow) == {flow.source_system, flow.target_system} \ {""}

\* C2: no record is both in related_flows and in direct_results, and every
\* record of related_flows has a source or target system that is the source or
\* target system of a record of direct_results; so related_flows is empty
\* whenever direct_results is.
C2_RelatedDisjointAndShared ==
    SearchReturned =>
        /\ \A r \in Range(response.related_flows) :
               /\ r \notin Range(response.direct_results)
               /\ \A d \in Range(response.direct_results) : d.id # r.id
               /\ \E d \in Range(response.direct_results) :
                      SystemsOfFlow(r) \cap SystemsOfFlow(d) # {}
        /\ response.direct_results = <<>> => response.related_flows = <<>>

\* a call that returned direct results and related flows, with a record on the
\* systems of the direct results that is itself a direct result
C2_Witness ==
    /\ SearchReturned
    /\ response.related_flows # <<>>
    /\ \E d, e \in Range(response.direct_results) :
           d.id # e.id /\ SystemsOfFlow(d) \cap SystemsOfFlow(e) # {}

\* the flows the passes gave a positive score
PositiveIds == {id \in DOMAIN frame.scored.flow_scores : frame.scored.flow_scores[id] > 0}

DirectIds == {response.direct_results[i].id : i \in DOMAIN response.direct_results}

\* the direct results are the best: positive scores, none left out scores higher
HighestScored ==
    /\ DirectIds \subseteq PositiveIds
    /\ Cardinality(DirectIds) = Len(response.direct_results)
    /\ \A id \in DOMAIN frame.scored.flow_scores \ DirectIds :
           \A d \in Range(response.direct_results) :
               frame.scored.flow_scores[id] <= FinalScore(d)

\* C3: for max_results >= 0, search() returns min(max_results, number of records
\* of score > 0) direct results; for max_results < 0 it returns all records of
\* score > 0 but the last -max_results of the sorted list.  Either way they are
\* the highest-scored records of score > 0: no record left out scores strictly
\* higher than one that is included.
C3_TopResults ==
    SearchReturned =>
        /\ Len(response.direct_results) =
               IF frame.max_results >= 0
               THEN IF frame.max_results < Cardinality(PositiveIds)
                    THEN frame.max_results ELSE Cardinality(PositiveIds)
               ELSE Max2(0, Cardinality(PositiveIds) + frame.max_results)
        /\ frame.max_results >= 0 => Len(response.direct_results) <= frame.max_results
        /\ HighestScored

\* a call whose max_results left out a record of a positive, lower score
C3_Witness ==
    /\ SearchReturned
    /\ frame.max_results = 1
    /\ Len(response.direct_results) = 1
    /\ \E id \in PositiveIds \ DirectIds :
           frame.scored.flow_scores[id] < FinalScore(response.direct_results[1])

\* the records that qualify as related, in catalog order
Qualifying ==
    SelectSeq(data_store.data_flows,
              LAMBDA flow :
                  /\ flow.id \notin DirectIds
                  /\ \E d \in Range(response.direct_results) :
                         SystemsOfFlow(flow) \cap SystemsOfFlow(d) # {})

\* C4: related_flows in the result has at most 10 records, exactly the first
\* 10, in catalog order, of the records that qualify as related.
C4_FirstTenRelated ==
    SearchReturned =>
        /\ Len(response.related_flows) <= 10
        /\ response.related_flows = SubSeq(Qualifying, 1, Len(response.related_flows))
        /\ Len(response.related_flows) < 10 => response.related_flows = Qualifying

\* a call with more than 10 qualifying records, 10 of them returned
C4_Witness ==
    /\ SearchReturned
    /\ Len(Qualifying) > 10
    /\ Len(response.related_flows) = 10

\* the words of a text up to case and punctuation: lower case, hyphens as
\* spaces, other punctuation dropped
WordsOf(text) == split(MapChars(NormaliseChar, text, 1))

\* the query of the last call is the record's name up to case and punctuation
QueryIsNameOf(flow) == WordsOf(request) = WordsOf(flow.name)

\* C5 as stated: search(name) with the default max_results returns every
\* record of that name in direct_results with a score of at least 1.0.
C5_AsStated ==
    SearchReturned /\ frame.max_results = DefaultMaxResults =>
        \A r \in Range(data_store.data_flows) :
            QueryIsNameOf(r) => r.id \in DirectIds /\ FinalScore(r) >= ScoreUnit

\* C5: when the query equals the name of record r up to case and punctuation
\* and the name gives at least one token (a word of three or more characters
\* that is no stopword), r's score is at least 1.0, and r is in direct_results
\* unless max_results cut the list before r: with max_results not less than the
\* number of records of a positive score r is always returned, and a record
\* returned in r's place never scores lower than r.  A record whose name gives
\* no token gets nothing from its name.
C5_NameQueryFindsRecord ==
    SearchReturned =>
        \A r \in Range(data_store.data_flows) :
            QueryIsNameOf(r) =>
                IF _tokenize(r.name) # <<>>
                THEN /\ FinalScore(r) >= ScoreUnit * Len(_tokenize(r.name))
                     /\ FinalScore(r) >= ScoreUnit
                     /\ frame.max_results >= Cardinality(PositiveIds) => r.id \in DirectIds
                     /\ r.id \notin DirectIds =>
                            \A d \in Range(response.direct_results) :
                                FinalScore(d) >= FinalScore(r)
                ELSE /\ frame.scored.query_tokens = <<>>
                     /\ frame.scored.fulltext_scores = frame.scored.zero_scores

\* a call whose query is a record's name in another case and punctuation, the
\* record among the direct results
C5_Witness ==
    /\ SearchReturned
    /\ \E r \in Range(data_store.data_flows) :
           /\ QueryIsNameOf(r)
           /\ request # r.name
           /\ lower(request) # lower(r.name)
           /\ r.id \in DirectIds

\* the query without its i-th word
WithoutWord(text, i) ==
    Join(" ", SubSeq(split(text), 1, i - 1) \o SubSeq(split(text), i + 1, Len(split(text))))

\* the word is a matching term: a token of the query that an index of names or
\* descriptions holds, or that an entity match consumed
MatchingTerm(word) ==
    /\ _tokenize(word) = <<lower(word)>>
    /\ \/ lower(word) \in DOMAIN enhanced_searcher.name_index
       \/ lower(word) \in DOMAIN enhanced_searcher.description_index
       \/ lower(word) \notin Range(frame.scored.extracted.unknown_terms)

\* C6 as stated: removing one matching term from the query never increases a
\* record's final score.
C6_AsStated ==
    SearchReturned =>
        \A i \in DOMAIN split(request) :
            MatchingTerm(split(request)[i]) =>
                \A id \in DOMAIN frame.scored.flow_scores :
                    Scored(enhanced_searcher, data_store.data_flows,
                           WithoutWord(request, i)).flow_scores[id]
                        <= frame.scored.flow_scores[id]

\* the phrases X and Y of the directional queries "kw1 X kw2 Y" of the model
PhraseWords == Phrases \cup {"foo", "GRID", "MIRA"}

\* what the directional-pattern pass added to the flow
PatternContribution(id) ==
    frame.scored.flow_scores[id] - frame.scored.fulltext_scores[id]

\* the system the phrase resolves to, a one-element list, or the empty list
Resolved(phrase) == _find_best_system_match(enhanced_searcher, lower(phrase))

\* C7: in the directional-pattern pass a query "von X nach Y" or "from X to Y"
\* adds 5.0 to exactly the records whose source is the system resolved from X
\* and whose target is the system resolved from Y, a query "zwischen X und Y"
\* or "between X and Y" to exactly the records whose source and target are the
\* resolved pair in either order, and nothing to any other record; if either
\* phrase does not resolve, the pass adds nothing to any record.
C7_DirectionalPattern ==
    SearchReturned =>
        \A k \in DOMAIN direction_patterns, x, y \in PhraseWords :
            request = direction_patterns[k].kw1 \o " " \o x \o " "
                          \o direction_patterns[k].kw2 \o " " \o y
            => \A flow \in Range(data_store.data_flows) :
                   PatternContribution(flow.id) =
                       IF /\ Resolved(x) # Absent
                          /\ Resolved(y) # Absent
                          /\ \/ /\ flow.source_system = Resolved(x)[1]
                                /\ flow.target_system = Resolved(y)[1]
                             \/ /\ direction_patterns[k].pattern_type = "between"
                                /\ flow.source_system = Resolved(y)[1]
                                /\ flow.target_system = Resolved(x)[1]
                       THEN PatternScore
                       ELSE 0

\* a "between" query whose phrases resolve to two systems: a record from the
\* second to the first got the 5.0, another record got nothing from the pass
C7_Witness ==
    /\ SearchReturned
    /\ \E x, y \in PhraseWords :
           /\ request = "zwischen " \o x \o " und " \o y
           /\ Resolved(x) # Absent /\ Resolved(y) # Absent /\ Resolved(x) # Resolved(y)
           /\ \E f, g \in Range(data_store.data_flows) :
                  /\ f.source_system = Resolved(y)[1] /\ f.target_system = Resolved(x)[1]
                  /\ PatternContribution(f.id) = PatternScore
                  /\ PatternContribution(g.id) = 0

\* a "from-to" query with a phrase that resolves to no system: nothing added
C7_WitnessUnresolved ==
    /\ SearchReturned
    /\ \E x, y \in PhraseWords :
           /\ request = "von " \o x \o " nach " \o y
           /\ Resolved(x) = Absent /\ Resolved(y) # Absent
           /\ \E f \in Range(data_store.data_flows) : f.target_system = Resolved(y)[1]
           /\ \A id \in DOMAIN frame.scored.flow_scores : PatternContribution(id) = 0

\* the ids of direct_results, in order
DirectIdList == [i \in DOMAIN response.direct_results |-> response.direct_results[i].id]

\* C8: on the catalog {R1 (GRID -> MIRA, NOMINT), R2 (MIRA -> GRID, NOMRES)},
\* search("von GRID nach MIRA") returns R1 before R2 in direct_results, R1's
\* score strictly higher than R2's: 8.0 against 3.0.
C8_ExampleRanking ==
    SearchReturned /\ xml_file = ExampleFile /\ request = "von GRID nach MIRA" =>
        /\ frame.scored.flow_scores["R1"] > frame.scored.flow_scores["R2"]
        /\ frame.scored.flow_scores = [R1 |-> 8 * ScoreUnit, R2 |-> 3 * ScoreUnit]
        /\ frame.max_results = DefaultMaxResults =>
               /\ DirectIdList = <<"R1", "R2">>
               /\ response.direct_results[1].search_score[1]
                      > response.direct_results[2].search_score[1]
        /\ \A i, j \in DOMAIN DirectIdList :
               DirectIdList[i] = "R1" /\ DirectIdList[j] = "R2" => i < j
        /\ "R2" \in DirectIds => "R1" \in DirectIds

\* the call search("von GRID nach MIRA") on that catalog, both records returned
C8_Witness ==
    /\ SearchReturned
    /\ xml_file = ExampleFile
    /\ request = "von GRID nach MIRA"
    /\ Len(response.direct_results) = 2

\* the text occurs, in any case, in no field of any record of the catalog
InNoRecord(text) ==
    \A flow \in Range(data_store.data_flows) :
        /\ \A field \in {"id", "name", "description", "transmission_method", "format",
                         "trigger", "source_system", "target_system"} :
               ~StrIn(text, lower(flow[field]))
        /\ \A k \in DOMAIN flow.process_steps :
               ~StrIn(text, lower(flow.process_steps[k].interface))

\* C9: on a catalog that holds the system "GAS-X", the query "gasx" is
\* recognized as system GAS-X through the variant table, and every record whose
\* source or target is GAS-X gets a positive entity-pass contribution, so it is
\* among the scored records and, max_results allowing, in direct_results.
C9_VariantRecognized ==
    SearchReturned /\ request = "gasx" /\ "GAS-X" \in data_store.systems =>
        /\ "gasx" \in Range(enhanced_searcher.system_variants["GAS-X"])
        /\ "GAS-X" \in Range(response.query_entities.systems)
        /\ \A flow \in Range(data_store.data_flows) :
               "GAS-X" \in SystemsOfFlow(flow) =>
                   /\ frame.scored.entity_scores[flow.id] > 0
                   /\ flow.id \in PositiveIds
                   /\ frame.max_results >= Cardinality(PositiveIds) => flow.id \in DirectIds

\* search("gasx") on a catalog where "gasx" occurs in no record: a record from
\* GAS-X and a record to GAS-X are direct results
C9_Witness ==
    /\ SearchReturned
    /\ request = "gasx"
    /\ InNoRecord("gasx")
    /\ \E f, g \in Range(response.direct_results) :
           f.source_system = "GAS-X" /\ g.target_system = "GAS-X"

\* C10: for every catalog search("") returns a result with direct_results
\* empty, related_flows empty and the "nothing found" sentence as
\* natural_response.
C10_EmptyQuery ==
    SearchReturned /\ request = "" =>
        /\ response.direct_results = <<>>
        /\ response.related_flows = <<>>
        /\ response.matching_systems = {}
        /\ response.natural_response
               = "Ich konnte keine Datenflüsse finden, die zu Ihrer Anfrage '' passen."

\* search("") returned on a catalog that holds records
C10_Witness ==
    /\ SearchReturned
    /\ request = ""
    /\ response.kind = "enhanced"
    /\ Len(data_store.data_flows) >= 2

\* the templates of the directional-pattern pass that match the query of the
\* last call, by their position in direction_patterns
MatchingTemplates ==
    {k \in DOMAIN direction_patterns :
        re_search(direction_patterns[k], frame.scored.query).matched}

\* what template k adds to each record when it is the only one applied
TemplateAlone(k) ==
    ApplyPattern(enhanced_searcher, data_store.data_flows, frame.scored.query,
                 frame.scored.zero_scores, direction_patterns[k])

\* C15: in the directional-pattern pass the four templates are tried in fixed
\* order and only the first one that matches the query is applied: what the
\* pass adds to a record is what the first matching template adds to it, and
\* nothing if no template matches.
C15_AsStated ==
    SearchReturned =>
        \A id \in DOMAIN frame.scored.flow_scores :
            PatternContribution(id) =
                IF MatchingTemplates = {} THEN 0
                ELSE TemplateAlone(CHOOSE k \in MatchingTemplates :
                                       \A j \in MatchingTemplates : k <= j)[id]

\* entity extraction recognized a system, a format, a method or an interface
EntityRecognized ==
    \/ frame.scored.extracted.systems # <<>>
    \/ frame.scored.extracted.formats # <<>>
    \/ frame.scored.extracted.transmission_methods # <<>>
    \/ frame.scored.extracted.interfaces # <<>>

\* what the fuzzy-term pass added to the flow
FuzzyContribution(id) ==
    frame.scored.fuzzy_scores[id] - frame.scored.entity_scores[id]

\* C16: the fuzzy-term pass runs on the unknown_terms that entity extraction
\* left, and on the full set of query tokens only when no entity at all was
\* recognized: when an entity was recognized and every query token was
\* consumed, the pass adds nothing to any record.
C16_AsStated ==
    SearchReturned =>
        /\ Range(frame.scored.query_entities.unknown_terms) =
               IF EntityRecognized THEN Range(frame.scored.extracted.unknown_terms)
               ELSE Range(frame.scored.query_tokens)
        /\ EntityRecognized /\ frame.scored.extracted.unknown_terms = <<>> =>
               \A id \in DOMAIN frame.scored.flow_scores : FuzzyContribution(id) = 0

\* the query tokens that name an entity of the returned query_entities: a
\* token of a recognized system's name, or the name of a recognized format,
\* method or interface in lower case
NamesRecognized ==
    UNION {Range(_tokenize(response.query_entities.systems[i])) :
              i \in DOMAIN response.query_entities.systems}
    \cup {lower(response.query_entities.formats[i]) :
              i \in DOMAIN response.query_entities.formats}
    \cup {lower(response.query_entities.transmission_methods[i]) :
              i \in DOMAIN response.query_entities.transmission_methods}
    \cup {lower(response.query_entities.interfaces[i]) :
              i \in DOMAIN response.query_entities.interfaces}

\* C17: the unknown_terms of the query_entities search() returns are exactly
\* the query tokens that entity extraction did not consume, and no token that
\* names a recognized entity is among them.
C17_AsStated ==
    SearchReturned =>
        /\ Range(response.query_entities.unknown_terms)
               = Range(frame.scored.extracted.unknown_terms)
        /\ Range(response.query_entities.unknown_terms) \cap NamesRecognized = {}

\* what the entity pass is to add to the flow for the entities it was given:
\* for each matched system the flow is on, the credit of lines 377-387 once;
\* for each matched format, method and interface the flow has, its score once
EntityCredit(flow) ==
    SumOver(LAMBDA system : SystemCredit(flow, system, frame.scored.extracted.direction),
            Range(frame.scored.extracted.systems) \cap SystemsOfFlow(flow))
    + FormatScore
      * Cardinality(Range(frame.scored.extracted.formats) \cap Range(FormatKeys(flow)))
    + MethodScore
      * Cardinality(Range(frame.scored.extracted.transmission_methods)
                    \cap Range(TransmissionKeys(flow)))
    + InterfaceScore
      * Cardinality(Range(frame.scored.extracted.interfaces) \cap Range(InterfaceKeys(flow)))

\* C18: in the entity pass a record whose source and target both equal a
\* matched system receives exactly +3.0 for that system, and each matched
\* format, method and interface adds exactly +2.0, +1.5 and +2.5 once to each
\* record that has it, also when the record names the same system, method or
\* interface more than once.
C18_AsStated ==
    SearchReturned =>
        \A flow \in Range(data_store.data_flows) :
            frame.scored.entity_scores[flow.id] = EntityCredit(flow)

\* the direction a set of words gives: the keywords of lines 352-357, looked up
\* among the words of the query
DirectionByWords(words) ==
    IF words \cap {"von", "from"} # {} THEN "from"
    ELSE IF words \cap {"zu", "nach", "to"} # {} THEN "to"
    ELSE IF words \cap {"zwischen", "between"} # {} THEN "between"
    ELSE NoDirection

\* C19: the recognized direction of a query is "from" when the query contains
\* a from-keyword, otherwise "to" when it contains a to-keyword, otherwise
\* "between" when it contains a between-keyword, and none when the query
\* contains no direction keyword as a word.
C19_AsStated ==
    SearchReturned =>
        response.query_entities.direction = DirectionByWords(Range(WordsOf(request)))

\* the text s ends with the text t
EndsWith(s, t) == Len(t) <= Len(s) /\ SubSeq(s, Len(s) - Len(t) + 1, Len(s)) = t

\* C20: the number of related records stated in natural_response is the number
\* of records in the related_flows list of the same result: the response ends
\* with the related-records clause for the returned list.
C20_AsStated ==
    SearchReturned =>
        EndsWith(response.natural_response, RelatedClause(response.related_flows))

\* the searcher had list(self.data_store["systems"]) at line 44 enumerated the
\* set of systems as `systems`
Enumerated(systems) == [enhanced_searcher EXCEPT !.systems = systems]

\* the words a directional pattern of the query captured
CapturedTerms ==
    UNION {{re_search(direction_patterns[k], frame.scored.query).g1,
            re_search(direction_patterns[k], frame.scored.query).g2} :
              k \in MatchingTemplates}

\* C22: search() is a function of the catalog's contents and the query: under
\* every order in which the set of systems can be enumerated, each word a
\* directional pattern captured resolves to the same system, every record gets
\* the same score, and the sorted results are the same list.
C22_AsStated ==
    SearchReturned =>
        \A systems \in ListsOf(data_store.systems) :
            /\ \A term \in CapturedTerms :
                   _find_best_system_match(Enumerated(systems), term)
                       = _find_best_system_match(enhanced_searcher, term)
            /\ \A sc \in {Scored(Enumerated(systems), data_store.data_flows, request)} :
                   /\ sc.flow_scores = frame.scored.flow_scores
                   /\ sc.sorted_results = frame.scored.sorted_results

-----------------------------------------------------------------------------
(* The tokenizer on its own: a caller passes a text to _tokenize, may join  *)
(* the tokens it gets with " " and pass that text again.  A text is made of *)
(* a few pieces: words in either case, a stopword, a word with punctuation, *)
(* a hyphenated name, single letters, and the separators themselves.        *)

TextPieces == {"Grid", "GAS-X", "Daten!", "zu", "d", "Er", " ", "-", "."}

\* the longest text, in pieces
MaxPieces == 3

Texts == {Join("", w) : w \in UNION {[1..n -> TextPieces] : n \in 0..MaxPieces}}

InitTokenizer ==
    /\ request \in Texts
    /\ response = None
    /\ xml_file = Malformed
    /\ data_store = EmptyStore
    /\ enhanced_searcher = None
    /\ phase = "boot"
    /\ frame = NoFrame
    /\ held = None

\* self._tokenize(text)
TokenizeCall ==
    /\ response' = [kind |-> "tokens", text |-> request, tokens |-> _tokenize(request)]
    /\ UNCHANGED <<xml_file, data_store, enhanced_searcher, phase, request, frame, held>>

\* " ".join(tokens) becomes the next text
Rejoin ==
    /\ response.kind = "tokens"
    /\ request' = Join(" ", response.tokens)
    /\ UNCHANGED <<xml_file, data_store, enhanced_searcher, phase, response, frame, held>>

NextTokenizer == TokenizeCall \/ Rejoin

Tokenizer == InitTokenizer /\ [][NextTokenizer]_vars

\* C14: for every text, tokenizing the tokens of the text joined with " " gives
\* the tokens of the text again, the same tokens in the same order.
C14_TokenizeRejoined ==
    response.kind = "tokens" =>
        _tokenize(Join(" ", response.tokens)) = response.tokens

\* _tokenize returned two tokens for a text it did not leave as it was: the
\* text is not its tokens joined, so case, a hyphen, punctuation or a dropped
\* word made a difference
C14_Witness ==
    /\ response.kind = "tokens"
    /\ Len(response.tokens) >= 2
    /\ response.tokens[1] # response.tokens[2]
    /\ Join(" ", response.tokens) # response.text
    /\ Len(Join(" ", response.tokens)) < Len(response.text)

-----------------------------------------------------------------------------
(* Properties of the service over time (specification Service).            *)

\* the flow objects and the searcher as construction from the file f leaves them
AsConstructed(f) ==
    /\ data_store.data_flows = ParsedStore(f.elements).data_flows
    /\ \E systems \in ListsOf(ParsedStore(f.elements).systems) :
           enhanced_searcher = NewSearcher(ParsedStore(f.elements), systems)

\* C11: search() changes no state shared between queries: after any sequence
\* of search() calls on one searcher every catalog record and every index entry
\* equals its value right after construction, and a result returned by an
\* earlier query is not changed by a later query.
C11_AsStated ==
    /\ enhanced_searcher # None => \E f \in XmlFiles : f.well_formed /\ AsConstructed(f)
    /\ held # None => held.now = held.returned

\* flow objects without the score a search() call attached
Unscored(flows) == [i \in DOMAIN flows |-> [flows[i] EXCEPT !.search_score = Absent]]

\* the records of the last answer
Answered == Range(response.direct_results) \cup Range(response.related_flows)

\* the store, the searcher and the last answer all come from the file f: the
\* store holds f's records and sets, every index of the searcher is the one
\* built from them, and the answer scored and returned records of f only
FromGeneration(f) ==
    /\ Unscored(data_store.data_flows) = ParsedStore(f.elements).data_flows
    /\ [data_store EXCEPT !.data_flows = <<>>]
           = [ParsedStore(f.elements) EXCEPT !.data_flows = <<>>]
    /\ \E systems \in ListsOf(ParsedStore(f.elements).systems) :
           enhanced_searcher = NewSearcher(ParsedStore(f.elements), systems)
    /\ response.kind = "enhanced" =>
           /\ Answered \subseteq Range(data_store.data_flows)
           /\ DOMAIN frame.scored.flow_scores = {f.elements[i].id : i \in DOMAIN f.elements}

\* C12: a reload builds a new searcher and replaces the searcher reference in
\* one step, so the store, the searcher's indices and every answer belong to
\* one catalog generation: before the first successful parse there is no
\* searcher and the store is empty; afterwards there is one file whose records
\* the store, the searcher and the last answer all come from, whether the last
\* reload succeeded or failed.
C12_OneGeneration ==
    IF enhanced_searcher = None
    THEN data_store = EmptyStore /\ response.kind # "enhanced"
    ELSE \E f \in XmlFiles : f.well_formed /\ FromGeneration(f)

\* a client holds a result of the catalog served before a reload, and a query
\* has since been answered with records of the reloaded catalog, which shares
\* no record with the earlier one
C12_Witness ==
    /\ held # None
    /\ ~held.live
    /\ held.returned # <<>>
    /\ response.kind = "enhanced"
    /\ response.direct_results # <<>>
    /\ \A flow \in Range(held.returned) :
           flow.id \notin {g.id : g \in Range(data_store.data_flows)}

\* the step is a startup or a reload whose parse_xml_file call failed
ParseFailed ==
    /\ ~xml_file.well_formed
    /\ \/ phase = "boot" /\ phase' = "serving"
       \/ response'.kind = "reload" /\ ~response'.success

\* C13, as stated: when building the catalog or the searcher fails, the service
\* does not start or keeps the prior searcher, so a service that is serving has
\* a searcher and no query is answered without one.
C13_AsStated ==
    phase = "serving" => enhanced_searcher # None /\ response.kind # "basic"

\* C13, amended: a failed parse_xml_file leaves the searcher reference and the
\* store as they were, at startup (the service starts all the same, with no
\* searcher and an empty store) and at reload (the prior searcher keeps
\* serving); a query is answered by process_basic_query exactly when there is
\* no searcher, and then over the empty store, with no record in the answer;
\* an enhanced answer comes from a searcher whose construction was completed.
C13_FailureKeepsSearcher ==
    /\ [][ParseFailed => UNCHANGED <<enhanced_searcher, data_store>>]_vars
    /\ [](response.kind = "basic" =>
              /\ enhanced_searcher = None
              /\ data_store = EmptyStore
              /\ response.direct_results = <<>>
              /\ response.related_flows = <<>>)
    /\ [](response.kind = "enhanced" =>
              \E systems \in ListsOf(data_store.systems) :
                  enhanced_searcher = NewSearcher(data_store, systems))

\* a reload has failed on a malformed file and the searcher built from the
\* earlier file is still the one in place
C13_Witness ==
    /\ response.kind = "reload"
    /\ ~response.success
    /\ ~xml_file.well_formed
    /\ enhanced_searcher # None
    /\ data_store.data_flows # <<>>

\* the step is a reload whose parse_xml_file call failed
ReloadFailed ==
    /\ phase = "serving"
    /\ ~xml_file.well_formed
    /\ response'.kind = "reload"
    /\ ~response'.success

\* what the listing endpoints serve (lines 163-222) is what the searcher was
\* built from: its four term lists hold the store's sets and each of its
\* indices is the one built from the store's records
CatalogOfSearcher ==
    /\ data_store.systems = Range(enhanced_searcher.systems)
    /\ data_store.formats = Range(enhanced_searcher.formats)
    /\ data_store.transmission_methods = Range(enhanced_searcher.transmission_methods)
    /\ data_store.interfaces = Range(enhanced_searcher.interfaces)
    /\ enhanced_searcher.flow_index = BuildFlowIndex(data_store.data_flows, 1, <<>>)
    /\ enhanced_searcher.name_index
           = BuildIndex(NameKeys, data_store.data_flows, 1, EmptyIndex)
    /\ enhanced_searcher.description_index
           = BuildIndex(DescriptionKeys, data_store.data_flows, 1, EmptyIndex)
    /\ enhanced_searcher.system_index
           = BuildIndex(SystemKeys, data_store.data_flows, 1, EmptyIndex)
    /\ enhanced_searcher.format_index
           = BuildIndex(FormatKeys, data_store.data_flows, 1, EmptyIndex)
    /\ enhanced_searcher.transmission_index
           = BuildIndex(TransmissionKeys, data_store.data_flows, 1, EmptyIndex)
    /\ enhanced_searcher.interface_index
           = BuildIndex(InterfaceKeys, data_store.data_flows, 1, EmptyIndex)

\* C21: a reload that fails, however far the reading of the file has got,
\* leaves the records and the systems, formats, transmission methods and
\* interfaces sets of the store as they were before the reload, and leaves the
\* prior searcher in place; after the failed reload the store is still the
\* catalog that searcher was built from.
C21_FailedReloadKeepsCatalog ==
    /\ [][ReloadFailed =>
              /\ data_store'.data_flows = data_store.data_flows
              /\ data_store'.systems = data_store.systems
              /\ data_store'.formats = data_store.formats
              /\ data_store'.transmission_methods = data_store.transmission_methods
              /\ data_store'.interfaces = data_store.interfaces
              /\ enhanced_searcher' = enhanced_searcher]_vars
    /\ []((response.kind = "reload" /\ ~response.success /\ enhanced_searcher # None)
              => CatalogOfSearcher)

\* a reload has failed at the end of a file that holds records, after the
\* searcher in place had answered a query: the store still holds the records
\* of the earlier file, with the scores of that query on them
C21_Witness ==
    /\ response.kind = "reload"
    /\ ~response.success
    /\ xml_file = TruncatedFile
    /\ enhanced_searcher # None
    /\ \E i \in DOMAIN data_store.data_flows :
           data_store.data_flows[i].search_score # Absent
    /\ {data_store.data_flows[i].id : i \in DOMAIN data_store.data_flows}
           \cap {TruncatedFile.elements[i].id : i \in DOMAIN TruncatedFile.elements} = {}

=============================================================================
